---- MODULE Spec2Model ----
(***************************************************************************)
(* URL reputation plugin (plugins/url_reputation/url_reputation.py).       *)
(*                                                                         *)
(* Strings are sequences of one-character strings, so that lower(),        *)
(* endswith(), the `in` substring test and urlparse() are computed         *)
(* character by character.  The Cyrillic small letter a (U+0430) of the    *)
(* homograph test is the one-character string "U+0430".                    *)
(***************************************************************************)
EXTENDS Integers, Sequences, FiniteSets

VARIABLES
    _cfg,             \* self._cfg, the URLReputationConfig captured by __init__
    _RUST_AVAILABLE,  \* the module-level flag
    rust_plugin,      \* whether the instance has the attribute self.rust_plugin
    pc,               \* "idle": no call in progress; "returned": a call has ended
    uri,              \* payload.uri of the call that ended
    result,           \* what that call gave its caller
    path,             \* the branch of resource_pre_fetch that call took
    backend_calls,    \* how often that call invoked rust_plugin.validate_url_py
    previous,         \* the URL and result of the call before, where the caller
                      \* keeps them (NoCall where it does not)
    inflight          \* for each concurrent request: how far its call of
                      \* resource_pre_fetch is, its payload.uri, the branch the
                      \* call took and its result

vars ==
    <<_cfg, _RUST_AVAILABLE, rust_plugin, pc, uri, result, path, backend_calls,
      previous, inflight>>

(***************************************************************************)
(* Bound of the inputs.                                                    *)
(***************************************************************************)
\* How many prefixes ("sub." or "not") are stacked in front of a base host.
MaxPrefixes == 1

\* How many requests call resource_pre_fetch concurrently.
MaxTasks == 2

(***************************************************************************)
(* Characters and Python's str operations.                                 *)
(***************************************************************************)
UpperLetters ==
    <<"A", "B", "C", "D", "E", "F", "G", "H", "I", "J", "K", "L", "M",
      "N", "O", "P", "Q", "R", "S", "T", "U", "V", "W", "X", "Y", "Z">>

LowerLetters ==
    <<"a", "b", "c", "d", "e", "f", "g", "h", "i", "j", "k", "l", "m",
      "n", "o", "p", "q", "r", "s", "t", "u", "v", "w", "x", "y", "z">>

Digits == {"0", "1", "2", "3", "4", "5", "6", "7", "8", "9"}

AsciiLetters ==
    {UpperLetters[i] : i \in 1..26} \cup {LowerLetters[i] : i \in 1..26}

\* str.lower() on one character: only the cased letters change (U+0430 is
\* already lower case).
LowerOf == [c \in {UpperLetters[i] : i \in 1..26} |->
               LowerLetters[CHOOSE i \in 1..26 : UpperLetters[i] = c]]

lower_char(c) == IF c \in DOMAIN LowerOf THEN LowerOf[c] ELSE c

\* str.lower()
lower(s) == [i \in 1..Len(s) |-> lower_char(s[i])]

\* s.endswith(t)
endswith(s, t) ==
    /\ Len(t) <= Len(s)
    /\ SubSeq(s, Len(s) - Len(t) + 1, Len(s)) = t

\* t in s  (substring test; the empty string is in every string)
contains(s, t) ==
    \E i \in 1..(Len(s) - Len(t) + 1) : SubSeq(s, i, i + Len(t) - 1) = t

\* s.find(c) + 1: the first position of character c, 0 when absent
find(s, c) ==
    IF \E i \in 1..Len(s) : s[i] = c
    THEN CHOOSE i \in 1..Len(s) : s[i] = c /\ \A k \in 1..(i - 1) : s[k] # c
    ELSE 0

\* the last position of character c, 0 when absent (for rpartition)
rfind(s, c) ==
    IF \E i \in 1..Len(s) : s[i] = c
    THEN CHOOSE i \in 1..Len(s) : s[i] = c /\ \A k \in (i + 1)..Len(s) : s[k] # c
    ELSE 0

(***************************************************************************)
(* urllib.parse.urlparse, as resource_pre_fetch uses it: .scheme,          *)
(* .hostname, and the ValueError of an unbalanced bracket in the netloc.   *)
(* The inputs hold no white space, control characters or balanced          *)
(* brackets, so stripping and IPv6 literals are not modelled.              *)
(***************************************************************************)
scheme_chars == AsciiLetters \cup Digits \cup {"+", "-", "."}

\* position of the ":" that ends the scheme, 0 when the URL has no scheme
scheme_end(url) ==
    LET i == find(url, ":")
    IN  IF /\ i > 1
           /\ url[1] \in AsciiLetters
           /\ \A k \in 1..(i - 1) : url[k] \in scheme_chars
        THEN i
        ELSE 0

\* parsed.scheme (urlsplit lower-cases it)
scheme(url) ==
    LET e == scheme_end(url)
    IN  IF e > 0 THEN lower(SubSeq(url, 1, e - 1)) ELSE <<>>

after_scheme(url) ==
    LET e == scheme_end(url)
    IN  IF e > 0 THEN SubSeq(url, e + 1, Len(url)) ELSE url

\* _splitnetloc: the end of the netloc in r, the first of "/", "?", "#" from
\* position 3 on, Len(r) + 1 when there is none
_splitnetloc(r) ==
    IF \E i \in 3..Len(r) : r[i] \in {"/", "?", "#"}
    THEN CHOOSE i \in 3..Len(r) :
             /\ r[i] \in {"/", "?", "#"}
             /\ \A k \in 3..(i - 1) : r[k] \notin {"/", "?", "#"}
    ELSE Len(r) + 1

\* the netloc of r, the URL behind its scheme: what follows "//"
netloc_of(r) ==
    IF Len(r) >= 2 /\ r[1] = "/" /\ r[2] = "/"
    THEN SubSeq(r, 3, _splitnetloc(r) - 1)
    ELSE <<>>

\* parsed.netloc
netloc(url) == netloc_of(after_scheme(url))

\* netloc n has "[" without "]" or "]" without "["
unbalanced_brackets(n) ==
    (\E i \in 1..Len(n) : n[i] = "[") # (\E i \in 1..Len(n) : n[i] = "]")

\* urlsplit raises ValueError("Invalid IPv6 URL")
urlparse_raises(url) == unbalanced_brackets(netloc(url))

\* _hostinfo: hostinfo h (the netloc behind its userinfo) before its first
\* ":", lower-cased
_hostinfo(h) ==
    lower(IF find(h, ":") > 0 THEN SubSeq(h, 1, find(h, ":") - 1) ELSE h)

\* the hostname of netloc n: what follows the last "@", through _hostinfo
hostname_of(n) == _hostinfo(SubSeq(n, rfind(n, "@") + 1, Len(n)))

\* parsed.hostname, with None as the empty string
hostname(url) == hostname_of(netloc(url))

(***************************************************************************)
(* The strings of the inputs: schemes, hosts, URL tails, configured        *)
(* domains and patterns (those of the unit tests and of section 8 of the   *)
(* specification).                                                         *)
(***************************************************************************)
s_https == <<"h", "t", "t", "p", "s">>
s_http == <<"h", "t", "t", "p">>
s_sep == <<":", "/", "/">>
s_dot == <<".">>

s_example_com == <<"e", "x", "a", "m", "p", "l", "e", ".", "c", "o", "m">>
s_Example_COM == <<"E", "x", "a", "m", "p", "l", "e", ".", "C", "O", "M">>
s_bad_example == <<"b", "a", "d", ".", "e", "x", "a", "m", "p", "l", "e">>
s_Bad_Example == <<"B", "a", "d", ".", "E", "x", "a", "m", "p", "l", "e">>
s_paypal_com == <<"p", "a", "y", "p", "a", "l", ".", "c", "o", "m">>
\* "pаypal.com", the host of test_phishing_like_domain_blocked
s_homograph_com == <<"p", "U+0430", "y", "p", "a", "l", ".", "c", "o", "m">>
s_trusted_example ==
    <<"t", "r", "u", "s", "t", "e", "d", ".", "e", "x", "a", "m", "p", "l", "e">>
\* the host of test_high_entropy_domain_blocked
s_entropy_com ==
    <<"a", "j", "s", "d", "9", "a", "8", "s", "d", "7", "a", "9", "8", "s",
      "d", "a", "7", "s", "d", "9", ".", "c", "o", "m">>
\* "xn--fsq.com", the host of test_internationalized_domain, and the name
\* it encodes, U+4F8B followed by ".com"
s_xn_fsq_com == <<"x", "n", "-", "-", "f", "s", "q", ".", "c", "o", "m">>
s_U4F8B_com == <<"U+4F8B", ".", "c", "o", "m">>
s_sub == <<"s", "u", "b", ".">>
s_not == <<"n", "o", "t">>

t_admin ==
    <<"/", "a", "d", "m", "i", "n", "/", "d", "a", "s", "h", "b", "o", "a", "r", "d">>

p_trusted ==
    <<"^", "h", "t", "t", "p", "s", ":", "/", "/", "t", "r", "u", "s", "t", "e",
      "d", "\\", ".", "e", "x", "a", "m", "p", "l", "e", "/", ".", "*", "$">>
p_admin == <<".", "*", "a", "d", "m", "i", "n", ".", "*">>
p_login == <<".", "*", "l", "o", "g", "i", "n", ".", "*">>
p_Admin == <<"/", "A", "d", "m", "i", "n">>
p_dash == <<"d", "a", "s", "h">>

\* URLs outside the scheme://host/tail shape
u_upper ==
    <<"H", "T", "T", "P", "S", ":", "/", "/", "E", "x", "a", "m", "p", "l", "e",
      ".", "C", "O", "M", "/", "A", "d", "m", "i", "n">>
u_userinfo ==
    <<"h", "t", "t", "p", ":", "/", "/", "u", ":", "p", "@", "e", "x", "a", "m",
      "p", "l", "e", ".", "c", "o", "m", "/">>
\* the URL of test_url_with_port_allowed
u_port ==
    <<"h", "t", "t", "p", "s", ":", "/", "/", "e", "x", "a", "m", "p", "l", "e",
      ".", "c", "o", "m", ":", "8", "0", "8", "0", "/", "p", "a", "t", "h">>
\* "https://pаypal.com/login", the URL of test_phishing_like_domain_blocked
u_phishing == s_https \o s_sep \o s_homograph_com \o <<"/", "l", "o", "g", "i", "n">>
u_no_scheme == <<"e", "x", "a", "m", "p", "l", "e", ".", "c", "o", "m", "/", "x">>
u_no_netloc == <<"h", "t", "t", "p", "s", ":", "b", "a", "d", ".", "e", "x", "a", "m", "p", "l", "e">>
u_bracket == <<"h", "t", "t", "p", ":", "/", "/", "[">>
u_bracket_no_scheme == <<"/", "/", "[", "a", "d", "m", "i", "n">>
u_empty == <<>>
\* the URL of test_internationalized_domain, and the same with the host in
\* Unicode
u_punycode == s_https \o s_sep \o s_xn_fsq_com
u_unicode == s_https \o s_sep \o s_U4F8B_com

(***************************************************************************)
(* The inputs.                                                             *)
(***************************************************************************)
RECURSIVE Prefixes(_)
Prefixes(n) ==
    IF n = 0 THEN {<<>>}
    ELSE Prefixes(n - 1) \cup {q \o r : q \in {s_sub, s_not}, r \in Prefixes(n - 1)}

\* hosts that also occur behind prefixes ("sub.example.com", "notexample.com")
PrefixedHosts == {s_example_com, s_bad_example}

OtherHosts == {s_homograph_com, s_trusted_example, s_entropy_com}

Hosts ==
    {q \o h : q \in Prefixes(MaxPrefixes), h \in PrefixedHosts} \cup OtherHosts

Tails == {<<>>, t_admin}

\* payload.uri
URIs ==
    {sch \o s_sep \o h \o t : sch \in {s_https, s_http}, h \in Hosts, t \in Tails}
    \cup {u_upper, u_userinfo, u_port, u_phishing, u_no_scheme, u_no_netloc, u_bracket,
          u_bracket_no_scheme, u_empty, u_punycode, u_unicode}

\* entropy_threshold in hundredths (2.5, 3.5)
Thresholds == {250, 350}

\* URLReputationConfig: pydantic keeps the fields as given (no validator).
\* With the heuristic off, one threshold is enough.
URLReputationConfig ==
    {c \in [whitelist_domains : {{}, {s_Example_COM}, {s_paypal_com}},
            allowed_patterns : {<<>>, <<p_trusted>>},
            blocked_domains : {{}, {s_Bad_Example}, {s_example_com, s_trusted_example}},
            blocked_patterns : {<<>>, <<p_admin, p_login>>, <<p_Admin, p_dash>>},
            use_heuristic_check : BOOLEAN,
            entropy_threshold : Thresholds,
            block_non_secure_http : BOOLEAN] :
        c.use_heuristic_check \/ c.entropy_threshold = 350}

(***************************************************************************)
(* ResourcePreFetchResult and PluginViolation.                             *)
(***************************************************************************)
NoViolation ==
    [present |-> FALSE, reason |-> "", code |-> "", description |-> <<>>,
     details |-> <<>>]

PluginViolation(reason, description, code, details) ==
    [present |-> TRUE, reason |-> reason, code |-> code,
     description |-> description, details |-> details]

\* outcome "return": the call returned this ResourcePreFetchResult;
\* outcome "raise": an exception left resource_pre_fetch
ResourcePreFetchResult(continue_processing, violation) ==
    [outcome |-> "return", continue_processing |-> continue_processing,
     violation |-> violation]

Raised ==
    [outcome |-> "raise", continue_processing |-> FALSE, violation |-> NoViolation]

NoResult ==
    [outcome |-> "none", continue_processing |-> FALSE, violation |-> NoViolation]

Allow == ResourcePreFetchResult(TRUE, NoViolation)

\* no call before, or none kept
NoCall == [uri |-> <<>>, result |-> NoResult]

\* the concurrent requests, and a request that is not calling
Tasks == 1..MaxTasks
NotCalling == [pc |-> "idle", uri |-> <<>>, path |-> "none", result |-> NoResult]

(***************************************************************************)
(* The Python rules of resource_pre_fetch (lines 117-165).                 *)
(***************************************************************************)
\* domain_matches with the "." of the suffix test forgotten
domain_matches_any_suffix(host, d) == host = d \/ endswith(host, d)

\* host == d or host.endswith("." + d)
domain_matches(host, d) == host = d \/ endswith(host, s_dot \o d)

\* host_in with the configured domains compared as written
host_in_as_written(host, domains) ==
    /\ host # <<>>
    /\ \E d \in domains : domain_matches(host, d)

\* host and any(... for d in {d.lower() for d in domains})
host_in(host, domains) ==
    /\ host # <<>>
    /\ \E d \in {lower(x) : x \in domains} : domain_matches(host, d)

\* the first pat of blocked_patterns with pat.lower() in uri, 0 when none
first_blocked_pattern(cfg, u) ==
    LET pats == cfg.blocked_patterns
        hits == {i \in 1..Len(pats) : contains(lower(u), lower(pats[i]))}
    IN  IF hits = {} THEN 0 ELSE CHOOSE i \in hits : \A k \in hits : i <= k

\* python_rules with the scheme rule moved in front of the whitelist
python_rules_scheme_first(cfg, u) ==
    IF urlparse_raises(u) THEN Raised
    ELSE
    LET host == lower(hostname(u))
        pat == first_blocked_pattern(cfg, u)
    IN  IF cfg.block_non_secure_http /\ scheme(u) # s_https
        THEN ResourcePreFetchResult(FALSE,
                 PluginViolation("Blocked non secure http url",
                                 <<"URL {} is blocked", u>>,
                                 "URL_REPUTATION_BLOCK", <<"url", u>>))
        ELSE IF host_in(host, cfg.whitelist_domains) THEN Allow
        ELSE IF host_in(host, cfg.blocked_domains)
        THEN ResourcePreFetchResult(FALSE,
                 PluginViolation("Blocked domain",
                                 <<"Domain {} is blocked", host>>,
                                 "URL_REPUTATION_BLOCK", <<"domain", host>>))
        ELSE IF pat # 0
        THEN ResourcePreFetchResult(FALSE,
                 PluginViolation("Blocked pattern",
                                 <<"URL matches blocked pattern: {}", cfg.blocked_patterns[pat]>>,
                                 "URL_REPUTATION_BLOCK",
                                 <<"pattern", cfg.blocked_patterns[pat]>>))
        ELSE Allow

python_rules(cfg, u) ==
    IF urlparse_raises(u) THEN Raised
    ELSE
    LET host == lower(hostname(u))
        pat == first_blocked_pattern(cfg, u)
    IN  IF host_in(host, cfg.whitelist_domains) THEN Allow
        ELSE IF cfg.block_non_secure_http /\ scheme(u) # s_https
        THEN ResourcePreFetchResult(FALSE,
                 PluginViolation("Blocked non secure http url",
                                 <<"URL {} is blocked", u>>,
                                 "URL_REPUTATION_BLOCK", <<"url", u>>))
        ELSE IF host_in(host, cfg.blocked_domains)
        THEN ResourcePreFetchResult(FALSE,
                 PluginViolation("Blocked domain",
                                 <<"Domain {} is blocked", host>>,
                                 "URL_REPUTATION_BLOCK", <<"domain", host>>))
        ELSE IF pat # 0
        THEN ResourcePreFetchResult(FALSE,
                 PluginViolation("Blocked pattern",
                                 <<"URL matches blocked pattern: {}", cfg.blocked_patterns[pat]>>,
                                 "URL_REPUTATION_BLOCK",
                                 <<"pattern", cfg.blocked_patterns[pat]>>))
        ELSE Allow

(***************************************************************************)
(* The accelerated evaluator (url_reputation_rust), whose code is not in   *)
(* src/: modelled from sections 4.2 to 4.4 of the specification.           *)
(***************************************************************************)
\* Does pattern p, from position i, match s from position j on?  The
\* pattern language: literal characters, "\" escapes, ".", a postfix "*" on
\* one atom, and a final "$".
RECURSIVE match_here(_, _, _, _)
match_here(p, i, s, j) ==
    IF i > Len(p) THEN TRUE
    ELSE IF p[i] = "$" /\ i = Len(p) THEN j > Len(s)
    ELSE
    LET esc == p[i] = "\\" /\ i < Len(p)
        w == IF esc THEN 2 ELSE 1
        lit == IF esc THEN p[i + 1] ELSE p[i]
        any == ~esc /\ p[i] = "."
        star == i + w <= Len(p) /\ p[i + w] = "*"
        ok(k) == k <= Len(s) /\ (any \/ s[k] = lit)
    IN  IF star
        THEN \/ match_here(p, i + w + 1, s, j)
             \/ ok(j) /\ match_here(p, i, s, j + 1)
        ELSE ok(j) /\ match_here(p, i + w, s, j + 1)

\* a regular-expression search of p in s ("^" anchors the start)
regex_search(p, s) ==
    IF Len(p) > 0 /\ p[1] = "^" THEN match_here(p, 2, s, 1)
    ELSE \E j \in 1..(Len(s) + 1) : match_here(p, 1, s, j)

\* an allowed pattern matches the URL, case-insensitively
allowed_pattern_matches(cfg, u) ==
    \E i \in 1..Len(cfg.allowed_patterns) :
        regex_search(lower(cfg.allowed_patterns[i]), lower(u))

\* a blocked pattern is in the lower-cased URL, as a substring or as a
\* regular expression
pattern_hits(pat, u) ==
    contains(lower(u), lower(pat)) \/ regex_search(lower(pat), lower(u))

first_matching_blocked_pattern(cfg, u) ==
    LET pats == cfg.blocked_patterns
        hits == {i \in 1..Len(pats) : pattern_hits(pats[i], u)}
    IN  IF hits = {} THEN 0 ELSE CHOOSE i \in hits : \A k \in hits : i <= k

\* round(1000 * log2(n)) for n = 1..32
Log2Milli ==
    <<0, 1000, 1585, 2000, 2322, 2585, 2807, 3000, 3170, 3322, 3459, 3585,
      3700, 3807, 3907, 4000, 4087, 4170, 4248, 4322, 4392, 4459, 4524, 4585,
      4644, 4700, 4755, 4807, 4858, 4907, 4954, 5000>>

\* the host's labels before the top-level suffix, dots dropped
significant_labels(host) ==
    LET last == rfind(host, ".")
        head == IF last > 0 THEN SubSeq(host, 1, last - 1) ELSE host
    IN  SelectSeq(head, LAMBDA c : c # ".")

\* n times the Shannon entropy (base 2) of the characters of s, in
\* thousandths:  n*log2(n) - sum over the characters c of cnt(c)*log2(cnt(c))
entropy_times_len(s) ==
    LET n == Len(s)
        cnt(c) == Cardinality({i \in 1..n : s[i] = c})
        firsts == {i \in 1..n : \A k \in 1..(i - 1) : s[k] # s[i]}
        RECURSIVE sum(_)
        sum(S) == IF S = {} THEN 0
                  ELSE LET i == CHOOSE x \in S : TRUE
                       IN  cnt(s[i]) * Log2Milli[cnt(s[i])] + sum(S \ {i})
    IN  IF n = 0 THEN 0 ELSE n * Log2Milli[n] - sum(firsts)

\* entropy(label) > entropy_threshold  (threshold in hundredths)
entropy_exceeds(host, threshold) ==
    LET s == significant_labels(host)
    IN  entropy_times_len(s) > threshold * 10 * Len(s)

\* a host that mixes a confusable of another script with Latin letters
mixed_script(host) ==
    /\ \E i \in 1..Len(host) : host[i] = "U+0430"
    /\ \E i \in 1..Len(host) : host[i] \in AsciiLetters

\* the label "xn--fsq" of a host name
s_xn_fsq == <<"x", "n", "-", "-", "f", "s", "q">>

\* a label decoded from punycode: "xn--fsq" is U+4F8B, and a label that is
\* not punycode is itself (no other punycode label is among the inputs)
to_unicode_label(l) == IF l = s_xn_fsq THEN <<"U+4F8B">> ELSE l

\* a host name decoded label by label; d is the position of its first "."
RECURSIVE to_unicode(_)
to_unicode_from(h, d) ==
    IF d = 0 THEN to_unicode_label(h)
    ELSE to_unicode_label(SubSeq(h, 1, d - 1)) \o s_dot
             \o to_unicode(SubSeq(h, d + 1, Len(h)))

to_unicode(h) == to_unicode_from(h, find(h, "."))

\* the configured domains in the form hosts are compared in
decoded_domains(domains) == {to_unicode(lower(d)) : d \in domains}

\* the ordered chain of section 4.3 on the normalized host of section 4.2
\* (lower-cased and decoded); an unparseable URL has no scheme and no
\* host.  What the heuristic's reason and code are is not specified.
validate_url_py(cfg, u) ==
    LET parsed == ~urlparse_raises(u)
        host == IF parsed THEN to_unicode(lower(hostname(u))) ELSE <<>>
        sch == IF parsed THEN scheme(u) ELSE <<>>
        pat == first_matching_blocked_pattern(cfg, u)
    IN  IF host_in(host, decoded_domains(cfg.whitelist_domains)) THEN Allow
        ELSE IF allowed_pattern_matches(cfg, u) THEN Allow
        ELSE IF cfg.block_non_secure_http /\ sch # s_https
        THEN ResourcePreFetchResult(FALSE,
                 PluginViolation("Blocked non secure http url",
                                 <<"URL {} is blocked", u>>,
                                 "URL_REPUTATION_BLOCK", <<"url", u>>))
        ELSE IF host_in(host, decoded_domains(cfg.blocked_domains))
        THEN ResourcePreFetchResult(FALSE,
                 PluginViolation("Blocked domain",
                                 <<"Domain {} is blocked", host>>,
                                 "URL_REPUTATION_BLOCK", <<"domain", host>>))
        ELSE IF pat # 0
        THEN ResourcePreFetchResult(FALSE,
                 PluginViolation("Blocked pattern",
                                 <<"URL matches blocked pattern: {}", cfg.blocked_patterns[pat]>>,
                                 "URL_REPUTATION_BLOCK",
                                 <<"pattern", cfg.blocked_patterns[pat]>>))
        ELSE IF /\ cfg.use_heuristic_check
                /\ host # <<>>
                /\ \/ mixed_script(host)
                   \/ entropy_exceeds(host, cfg.entropy_threshold)
        THEN ResourcePreFetchResult(FALSE,
                 PluginViolation("High entropy domain",
                                 <<"Domain {} looks generated", host>>,
                                 "URL_REPUTATION_HEURISTIC", <<"domain", host>>))
        ELSE Allow

(***************************************************************************)
(* The plugin instance and its calls.                                      *)
(***************************************************************************)
\* the except branch running the Python rules instead ("falling back to
\* Python", as its log message says)
rust_except_runs_python(cfg, u) == python_rules(cfg, u)

\* the except branch stopping the request without saying why
rust_except_stops(cfg, u) == ResourcePreFetchResult(FALSE, NoViolation)

\* what the except branch of resource_pre_fetch returns (lines 111-115)
rust_except_result(cfg, u) == ResourcePreFetchResult(TRUE, NoViolation)

\* self._cfg with its whitelist_domains and blocked_domains lower-cased in
\* place, instead of in the locals of lines 122 and 140
cfg_normalized_in_place(cfg) ==
    [cfg EXCEPT !.whitelist_domains = {lower(d) : d \in cfg.whitelist_domains},
                !.blocked_domains = {lower(d) : d \in cfg.blocked_domains}]

\* self._cfg after a call: no line of resource_pre_fetch assigns self._cfg
\* or a field of it (normalized_whitelist and normalized_blocked are locals)
cfg_after_call(cfg) == cfg

\* the values the state takes
TypeOK ==
    /\ _cfg \in URLReputationConfig
    /\ _RUST_AVAILABLE \in BOOLEAN
    /\ rust_plugin \in BOOLEAN
    /\ pc \in {"idle", "returned"}
    /\ path \in {"none", "python", "rust", "except"}
    /\ result.outcome \in {"none", "return", "raise"}
    /\ backend_calls \in {0, 1}
    /\ pc = "idle" => (uri = <<>> /\ result = NoResult /\ path = "none")
    /\ pc = "returned" => (uri \in URIs /\ path # "none" /\ result # NoResult)
    /\ previous = NoCall \/ (previous.uri \in URIs /\ previous.result # NoResult)
    /\ DOMAIN inflight = Tasks
    /\ \A t \in Tasks : inflight[t].pc \in {"idle", "entered", "returned"}

\* URLReputationPlugin(config): the state after construction, for every
\* configuration and either outcome of the import at lines 35-44
Init ==
    /\ _cfg \in URLReputationConfig
    /\ _RUST_AVAILABLE \in BOOLEAN
    /\ rust_plugin = _RUST_AVAILABLE
    /\ pc = "idle"
    /\ uri = <<>>
    /\ result = NoResult
    /\ path = "none"
    /\ backend_calls = 0
    /\ previous = NoCall
    /\ inflight = [t \in Tasks |-> NotCalling]

\* one call of resource_pre_fetch with payload.uri = u, from entry to return
resource_pre_fetch(u) ==
    /\ pc = "idle"
    /\ pc' = "returned"
    /\ uri' = u
    /\ \/ /\ _RUST_AVAILABLE
          /\ rust_plugin
          /\ result' = validate_url_py(_cfg, u)
          /\ path' = "rust"
          /\ backend_calls' = 1
       \/ /\ _RUST_AVAILABLE
          /\ rust_plugin
          /\ result' = rust_except_result(_cfg, u)
          /\ path' = "except"
          /\ backend_calls' = 1
       \/ /\ _RUST_AVAILABLE
          /\ ~rust_plugin
          /\ result' = rust_except_result(_cfg, u)
          /\ path' = "except"
          /\ backend_calls' = 0
       \/ /\ ~_RUST_AVAILABLE
          /\ result' = python_rules(_cfg, u)
          /\ path' = "python"
          /\ backend_calls' = 0
    /\ _cfg' = cfg_after_call(_cfg)
    /\ UNCHANGED <<_RUST_AVAILABLE, rust_plugin, previous, inflight>>

\* the caller takes the result; the next payload can be handed in
next_payload ==
    /\ pc = "returned"
    /\ pc' = "idle"
    /\ uri' = <<>>
    /\ result' = NoResult
    /\ path' = "none"
    /\ backend_calls' = 0
    /\ UNCHANGED <<_cfg, _RUST_AVAILABLE, rust_plugin, previous, inflight>>

\* the caller takes the result and keeps it, with its URL, until it has
\* taken the next one
next_payload_kept ==
    /\ pc = "returned"
    /\ pc' = "idle"
    /\ uri' = <<>>
    /\ result' = NoResult
    /\ path' = "none"
    /\ backend_calls' = 0
    /\ previous' = [uri |-> uri, result |-> result]
    /\ UNCHANGED <<_cfg, _RUST_AVAILABLE, rust_plugin, inflight>>

\* patch.object(url_reputation, '_RUST_AVAILABLE', b), entered or left
patch_RUST_AVAILABLE(b) ==
    /\ pc = "idle"
    /\ _RUST_AVAILABLE # b
    /\ _RUST_AVAILABLE' = b
    /\ UNCHANGED <<_cfg, rust_plugin, pc, uri, result, path, backend_calls, previous,
                   inflight>>

Next ==
    \/ \E u \in URIs : resource_pre_fetch(u)
    \/ next_payload
    \/ \E b \in BOOLEAN : patch_RUST_AVAILABLE(b)

Spec == Init /\ [][Next]_vars

(***************************************************************************)
(* The same instance and calls, seen by a caller that keeps the result of  *)
(* the call before: for the claims that compare two calls.                 *)
(***************************************************************************)
\* the configurations of these runs: those without whitelist, allowed
\* patterns and heuristic, with "Bad.Example" blocked and the substring
\* patterns
KeptConfigs ==
    {c \in URLReputationConfig :
        /\ c.whitelist_domains = {}
        /\ c.allowed_patterns = <<>>
        /\ c.blocked_domains = {s_Bad_Example}
        /\ c.blocked_patterns \in {<<>>, <<p_Admin, p_dash>>}
        /\ ~c.use_heuristic_check}

InitKept == Init /\ _cfg \in KeptConfigs

NextKept ==
    \/ \E u \in URIs : resource_pre_fetch(u)
    \/ next_payload_kept
    \/ \E b \in BOOLEAN : patch_RUST_AVAILABLE(b)

SpecKept == InitKept /\ [][NextKept]_vars

(***************************************************************************)
(* Concurrent requests on one instance.  resource_pre_fetch reads the      *)
(* shared state in two places: the module flag at line 107, and then       *)
(* self.rust_plugin (line 109) or the fields of self._cfg (lines 122-153). *)
(* A call is therefore two steps, between which the other requests and     *)
(* the patch of the flag can run.                                          *)
(***************************************************************************)
\* payload.uri of the concurrent calls
ConcurrentURIs ==
    {s_http \o s_sep \o s_bad_example,
     s_https \o s_sep \o s_example_com \o t_admin,
     u_upper, u_bracket}

\* request t calls resource_pre_fetch with payload.uri = u: line 107
call_entered(t, u) ==
    /\ inflight[t].pc = "idle"
    /\ inflight' = [inflight EXCEPT ![t] =
                       [pc |-> "entered", uri |-> u,
                        path |-> IF _RUST_AVAILABLE THEN "rust" ELSE "python",
                        result |-> NoResult]]
    /\ UNCHANGED <<_cfg, _RUST_AVAILABLE, rust_plugin, pc, uri, result, path,
                   backend_calls, previous>>

\* the call of request t runs its branch to the return: lines 108-115 or
\* lines 118-165
call_returned(t) ==
    /\ inflight[t].pc = "entered"
    /\ \/ /\ inflight[t].path = "rust"
          /\ rust_plugin
          /\ inflight' = [inflight EXCEPT ![t].pc = "returned",
                             ![t].result = validate_url_py(_cfg, inflight[t].uri)]
       \/ /\ inflight[t].path = "rust"
          /\ inflight' = [inflight EXCEPT ![t].pc = "returned",
                             ![t].path = "except",
                             ![t].result = rust_except_result(_cfg, inflight[t].uri)]
       \/ /\ inflight[t].path = "python"
          /\ inflight' = [inflight EXCEPT ![t].pc = "returned",
                             ![t].result = python_rules(_cfg, inflight[t].uri)]
    /\ _cfg' = cfg_after_call(_cfg)
    /\ UNCHANGED <<_RUST_AVAILABLE, rust_plugin, pc, uri, result, path,
                   backend_calls, previous>>

\* request t takes its result
call_taken(t) ==
    /\ inflight[t].pc = "returned"
    /\ inflight' = [inflight EXCEPT ![t] = NotCalling]
    /\ UNCHANGED <<_cfg, _RUST_AVAILABLE, rust_plugin, pc, uri, result, path,
                   backend_calls, previous>>

NextConcurrent ==
    \/ \E t \in Tasks, u \in ConcurrentURIs : call_entered(t, u)
    \/ \E t \in Tasks : call_returned(t)
    \/ \E t \in Tasks : call_taken(t)
    \/ \E b \in BOOLEAN : patch_RUST_AVAILABLE(b)

SpecConcurrent == InitKept /\ [][NextConcurrent]_vars

(***************************************************************************)
(* Instances whose domain lists name U+4F8B ".com", in Unicode or in       *)
(* punycode.                                                               *)
(***************************************************************************)
IdnDomains == {{}, {s_U4F8B_com}, {s_xn_fsq_com}}

IdnConfigs ==
    [whitelist_domains : IdnDomains,
     allowed_patterns : {<<>>},
     blocked_domains : IdnDomains,
     blocked_patterns : {<<>>},
     use_heuristic_check : BOOLEAN,
     entropy_threshold : {350},
     block_non_secure_http : BOOLEAN]

InitIdn ==
    /\ _cfg \in IdnConfigs
    /\ _RUST_AVAILABLE \in BOOLEAN
    /\ rust_plugin = _RUST_AVAILABLE
    /\ pc = "idle"
    /\ uri = <<>>
    /\ result = NoResult
    /\ path = "none"
    /\ backend_calls = 0
    /\ previous = NoCall
    /\ inflight = [t \in Tasks |-> NotCalling]

SpecIdn == InitIdn /\ [][Next]_vars

(***************************************************************************)
(* Construction with configurations that the specification calls invalid   *)
(* (sections 3 and 7).  URLReputationConfig declares types only (lines     *)
(* 46-77), so pydantic accepts a negative float and any string as a        *)
(* pattern.  The backend's constructor is not in src/: it is modelled as   *)
(* the specification's validation.                                         *)
(***************************************************************************)
\* the pattern "" and the pattern "*admin" (a "*" with nothing to repeat)
p_empty == <<>>
p_unparseable == <<"*", "a", "d", "m", "i", "n">>

\* entropy_threshold -1.0, in hundredths
NegativeThreshold == 0 - 100

\* a pattern of the pattern language of match_here: not empty, no "*"
\* without an atom before it, no "\" without a character behind it
pattern_parses(p) ==
    /\ Len(p) > 0
    /\ p[1] # "*"
    /\ ~(Len(p) >= 2 /\ p[1] = "^" /\ p[2] = "*")
    /\ ~(p[Len(p)] = "\\" /\ (Len(p) = 1 \/ p[Len(p) - 1] # "\\"))

\* the configuration errors of the specification
config_error(cfg) ==
    \/ cfg.entropy_threshold < 0
    \/ \E i \in 1..Len(cfg.allowed_patterns) : ~pattern_parses(cfg.allowed_patterns[i])
    \/ \E i \in 1..Len(cfg.blocked_patterns) : ~pattern_parses(cfg.blocked_patterns[i])

\* plugin_rust(self._cfg) raises
plugin_rust_raises(cfg) == config_error(cfg)

\* URLReputationConfig(**config) raises: no field has a validator
URLReputationConfig_raises(cfg) == FALSE

\* the configurations handed to the constructor in these runs
ConstructConfigs ==
    [whitelist_domains : {{}},
     allowed_patterns : {<<>>, <<p_unparseable>>},
     blocked_domains : {{}},
     blocked_patterns : {<<>>, <<p_empty>>, <<p_unparseable>>, <<p_dash>>},
     use_heuristic_check : BOOLEAN,
     entropy_threshold : {350, NegativeThreshold},
     block_non_secure_http : {FALSE}]

\* URLReputationPlugin(config) for any of these configurations: pc is
\* "failed" when __init__ raised, and then there is no instance to call
InitConstruct ==
    /\ _cfg \in ConstructConfigs
    /\ _RUST_AVAILABLE \in BOOLEAN
    /\ IF \/ URLReputationConfig_raises(_cfg)
          \/ _RUST_AVAILABLE /\ plugin_rust_raises(_cfg)
       THEN pc = "failed" /\ rust_plugin = FALSE
       ELSE pc = "idle" /\ rust_plugin = _RUST_AVAILABLE
    /\ uri = <<>>
    /\ result = NoResult
    /\ path = "none"
    /\ backend_calls = 0
    /\ previous = NoCall
    /\ inflight = [t \in Tasks |-> NotCalling]

SpecConstruct == InitConstruct /\ [][Next]_vars

(***************************************************************************)
(* The vocabulary of the claims.  The claims state the domain rule in      *)
(* their own words (ClaimMatch), not through domain_matches or host_in;    *)
(* pattern matching and entropy are those of the specification.            *)
(***************************************************************************)
\* the call ended and an evaluator (not the except branch) answered it
Evaluated == pc = "returned" /\ path \in {"python", "rust"}

\* the URL's host and scheme; an unparseable URL has neither (section 4.2)
ClaimHost == IF urlparse_raises(uri) THEN <<>> ELSE lower(hostname(uri))
ClaimScheme == IF urlparse_raises(uri) THEN <<>> ELSE scheme(uri)

\* h is d or a subdomain of d
ClaimMatch(h, d) ==
    \/ h = d
    \/ /\ Len(h) > Len(d)
       /\ h[Len(h) - Len(d)] = "."
       /\ \A i \in 1..Len(d) : h[Len(h) - Len(d) + i] = d[i]

ClaimListed(domains) ==
    /\ ClaimHost # <<>>
    /\ \E d \in domains : ClaimMatch(ClaimHost, lower(d))

ClaimWhitelisted == ClaimListed(_cfg.whitelist_domains)
ClaimBlockedDomain == ClaimListed(_cfg.blocked_domains)
ClaimAllowedPattern == allowed_pattern_matches(_cfg, uri)
ClaimSchemeBlocked == _cfg.block_non_secure_http /\ ClaimScheme # s_https
ClaimBlockedPattern ==
    \E i \in 1..Len(_cfg.blocked_patterns) : pattern_hits(_cfg.blocked_patterns[i], uri)

ClaimBlockedWith(reason, details) ==
    /\ result.outcome = "return"
    /\ ~result.continue_processing
    /\ result.violation.present
    /\ result.violation.reason = reason
    /\ result.violation.code = "URL_REPUTATION_BLOCK"
    /\ result.violation.details = details

(***************************************************************************)
(* C1: a call whose URL has a host that equals a whitelist_domains entry   *)
(* or is a subdomain of one returns allow (continue_processing true, no    *)
(* violation) on every branch, whatever the other configuration fields     *)
(* are: also for a non-https URL and for a host that is in blocked_domains *)
(* as well.                                                                *)
(***************************************************************************)
C1_WhitelistedHostIsAllowed ==
    (pc = "returned" /\ ClaimWhitelisted) => result = Allow

\* the Python rules allowed an http URL of a whitelisted host that is also a
\* blocked domain, under block_non_secure_http
C1_Witness ==
    /\ pc = "returned"
    /\ path = "python"
    /\ ClaimWhitelisted
    /\ ClaimBlockedDomain
    /\ ClaimSchemeBlocked
    /\ result = Allow

(***************************************************************************)
(* C2: a call whose URL matches an entry of allowed_patterns returns       *)
(* allow, also when the URL matches a blocked domain or a blocked pattern  *)
(* or would be blocked by the scheme rule or the heuristic.                *)
(***************************************************************************)
C2_AllowedPatternIsAllowed ==
    (pc = "returned" /\ ClaimAllowedPattern) => result = Allow

(***************************************************************************)
(* C3: with block_non_secure_http, a URL that neither the whitelist nor an *)
(* allowed pattern allows and whose scheme is not https (an unparseable    *)
(* URL has no scheme) is blocked with reason "Blocked non secure http      *)
(* url", code URL_REPUTATION_BLOCK and details {url: the raw URL}; and     *)
(* that violation is given only when block_non_secure_http is set and the  *)
(* scheme is not https.  Stated of the calls an evaluator answered.        *)
(***************************************************************************)
C3_NonSecureSchemeIsBlocked ==
    Evaluated =>
        /\ (ClaimSchemeBlocked /\ ~ClaimWhitelisted /\ ~ClaimAllowedPattern)
               => ClaimBlockedWith("Blocked non secure http url", <<"url", uri>>)
        /\ (result.violation.reason = "Blocked non secure http url")
               => ClaimSchemeBlocked

(***************************************************************************)
(* C4: a URL that passes the whitelist, allowed-pattern and scheme rules   *)
(* and whose host equals a blocked_domains entry or is a subdomain of one  *)
(* is blocked with reason "Blocked domain", code URL_REPUTATION_BLOCK and  *)
(* details {domain: the lower-cased host}.  Stated of the calls an         *)
(* evaluator answered.                                                     *)
(***************************************************************************)
C4_BlockedDomainIsBlocked ==
    (/\ Evaluated
     /\ ~ClaimWhitelisted
     /\ ~ClaimAllowedPattern
     /\ ~ClaimSchemeBlocked
     /\ ClaimBlockedDomain)
        => ClaimBlockedWith("Blocked domain", <<"domain", ClaimHost>>)

\* the Python rules blocked a subdomain of a blocked domain that is
\* configured in another case than the URL's
C4_Witness ==
    /\ pc = "returned"
    /\ path = "python"
    /\ ClaimHost = s_sub \o s_bad_example
    /\ s_Bad_Example \in _cfg.blocked_domains
    /\ ClaimBlockedWith("Blocked domain", <<"domain", s_sub \o s_bad_example>>)

(***************************************************************************)
(* C5: a parseable URL that passes the whitelist, allowed-pattern, scheme  *)
(* and blocked-domain rules and that contains, or matches as a regular     *)
(* expression, an entry of blocked_patterns (case-insensitively) is        *)
(* blocked with reason "Blocked pattern", code URL_REPUTATION_BLOCK and    *)
(* details {pattern: a matching entry as configured}.                      *)
(***************************************************************************)
C5_BlockedPatternIsBlocked ==
    (/\ Evaluated
     /\ ~urlparse_raises(uri)
     /\ ~ClaimWhitelisted
     /\ ~ClaimAllowedPattern
     /\ ~ClaimSchemeBlocked
     /\ ~ClaimBlockedDomain
     /\ ClaimBlockedPattern)
        => \E i \in 1..Len(_cfg.blocked_patterns) :
              /\ pattern_hits(_cfg.blocked_patterns[i], uri)
              /\ ClaimBlockedWith("Blocked pattern",
                                  <<"pattern", _cfg.blocked_patterns[i]>>)

(***************************************************************************)
(* C6: with use_heuristic_check, a parseable URL that no deterministic     *)
(* rule (whitelist, allowed pattern, scheme, blocked domain, blocked       *)
(* pattern) decides and whose host labels before the top-level suffix have *)
(* a Shannon entropy above entropy_threshold is blocked (so is             *)
(* https://ajsd9a8sd7a98sda7sd9.com at threshold 2.5); and without         *)
(* use_heuristic_check every block is one of the three deterministic       *)
(* blocks.  Stated of the calls an evaluator answered.                     *)
(***************************************************************************)
ClaimUndecided ==
    /\ ~urlparse_raises(uri)
    /\ ~ClaimWhitelisted
    /\ ~ClaimAllowedPattern
    /\ ~ClaimSchemeBlocked
    /\ ~ClaimBlockedDomain
    /\ ~ClaimBlockedPattern

ClaimHighEntropy ==
    ClaimHost # <<>> /\ entropy_exceeds(ClaimHost, _cfg.entropy_threshold)

C6_HighEntropyIsBlocked ==
    Evaluated =>
        /\ (_cfg.use_heuristic_check /\ ClaimUndecided /\ ClaimHighEntropy)
               => (result.outcome = "return" /\ ~result.continue_processing)
        /\ (~_cfg.use_heuristic_check /\ result.violation.present)
               => result.violation.reason \in
                      {"Blocked non secure http url", "Blocked domain", "Blocked pattern"}

(***************************************************************************)
(* C7: with use_heuristic_check, entropy_threshold 3.5,                    *)
(* block_non_secure_http and no allowed or blocked entries, an https URL   *)
(* whose host is not whitelisted but becomes a whitelisted host when its   *)
(* Cyrillic letter is read as the Latin one (https://pаypal.com/login     *)
(* against paypal.com) is blocked.  Stated of the calls an evaluator       *)
(* answered.                                                               *)
(***************************************************************************)
\* the host with every confusable replaced by the Latin letter it imitates
ClaimSkeleton(h) == [i \in 1..Len(h) |-> IF h[i] = "U+0430" THEN "a" ELSE h[i]]

ClaimLookalike ==
    /\ ClaimHost # <<>>
    /\ ClaimSkeleton(ClaimHost) # ClaimHost
    /\ ~ClaimWhitelisted
    /\ \E d \in _cfg.whitelist_domains :
           ClaimMatch(ClaimSkeleton(ClaimHost), lower(d))

C7_LookalikeIsBlocked ==
    (/\ Evaluated
     /\ ClaimLookalike
     /\ ClaimScheme = s_https
     /\ _cfg.use_heuristic_check
     /\ _cfg.entropy_threshold = 350
     /\ _cfg.block_non_secure_http
     /\ _cfg.allowed_patterns = <<>>
     /\ _cfg.blocked_domains = {}
     /\ _cfg.blocked_patterns = <<>>)
        => (result.outcome = "return" /\ ~result.continue_processing)

(***************************************************************************)
(* C8: domain matching is the same for whitelist_domains and               *)
(* blocked_domains and is exactly: lower-cased host h matches lower-cased  *)
(* entry d iff h = d or h ends with "." followed by d.  Seen in the        *)
(* results: a URL the scheme rule would block is allowed iff its host      *)
(* matches a whitelist entry, and a URL that passes the whitelist and the  *)
(* scheme rule gets "Blocked domain" iff its host matches a blocked        *)
(* entry.  So "Example.COM" admits example.com, and neither                *)
(* notexample.com nor a homograph of the entry is admitted.  Stated of the *)
(* calls an evaluator answered for a URL that no allowed pattern matches.  *)
(***************************************************************************)
C8_DomainMatchIsExactOrSubdomain ==
    (Evaluated /\ ~urlparse_raises(uri) /\ ~ClaimAllowedPattern) =>
        /\ ClaimSchemeBlocked => (result = Allow <=> ClaimWhitelisted)
        /\ (~ClaimWhitelisted /\ ~ClaimSchemeBlocked)
               => (result.violation.reason = "Blocked domain" <=> ClaimBlockedDomain)

\* the Python rules refused the whitelist allow to notexample.com although
\* example.com is whitelisted (as "Example.COM")
C8_Witness ==
    /\ pc = "returned"
    /\ path = "python"
    /\ ClaimHost = s_not \o s_example_com
    /\ s_Example_COM \in _cfg.whitelist_domains
    /\ ClaimSchemeBlocked
    /\ result # Allow

(***************************************************************************)
(* C9: a call that ends in the except branch returns continue_processing   *)
(* true with no violation, whatever the Python rules would say, invokes    *)
(* the backend at most once, and leaves _RUST_AVAILABLE, rust_plugin and   *)
(* the configuration as they were; and any call made while _RUST_AVAILABLE *)
(* is set goes to the backend branch (not to the Python rules), invoking   *)
(* the backend exactly once when the instance has one.                     *)
(***************************************************************************)
C9_BackendErrorFailsOpen ==
    [][(pc = "idle" /\ pc' = "returned") =>
          /\ path' = "except" =>
                /\ result' = Allow
                /\ backend_calls' <= 1
                /\ _RUST_AVAILABLE' = _RUST_AVAILABLE
                /\ rust_plugin' = rust_plugin
                /\ _cfg' = _cfg
          /\ _RUST_AVAILABLE =>
                /\ path' \in {"rust", "except"}
                /\ rust_plugin => backend_calls' = 1]_vars

\* the backend raised on a URL that the Python rules would have blocked,
\* and the call returned allow
C9_Witness ==
    /\ pc = "returned"
    /\ path = "except"
    /\ backend_calls = 1
    /\ result = Allow
    /\ ~python_rules(_cfg, uri).continue_processing

(***************************************************************************)
(* C10: for every configuration and URL, the Python rules and the          *)
(* accelerated evaluator (when it does not raise) give the same            *)
(* continue_processing and, when they block, the same reason and code.     *)
(***************************************************************************)
ClaimSameVerdict(a, b) ==
    /\ a.outcome = "return"
    /\ b.outcome = "return"
    /\ a.continue_processing = b.continue_processing
    /\ a.violation.present = b.violation.present
    /\ a.violation.reason = b.violation.reason
    /\ a.violation.code = b.violation.code

C10_EvaluatorsAgree ==
    /\ (pc = "returned" /\ path = "python" /\ ~urlparse_raises(uri))
           => ClaimSameVerdict(result, validate_url_py(_cfg, uri))
    /\ (pc = "returned" /\ path = "rust" /\ ~urlparse_raises(uri))
           => ClaimSameVerdict(result, python_rules(_cfg, uri))

(***************************************************************************)
(* C11: a call with the URL of the call before it on the same instance     *)
(* gives the result that call gave: the same outcome, continue_processing  *)
(* and violation (reason, code, description, details).                     *)
(***************************************************************************)
C11_SameUrlSameDecision ==
    (pc = "returned" /\ previous # NoCall /\ previous.uri = uri)
        => result = previous.result

(***************************************************************************)
(* C12: every ResourcePreFetchResult a call returns, on every branch (the  *)
(* Python rules, the backend, the except branch), has a violation if and   *)
(* only if its continue_processing is false.                               *)
(***************************************************************************)
C12_ViolationIffNotContinue ==
    (pc = "returned" /\ result.outcome = "return")
        => (result.violation.present <=> ~result.continue_processing)

\* the Python rules returned a block, with its violation
C12_Witness ==
    /\ pc = "returned"
    /\ path = "python"
    /\ result.outcome = "return"
    /\ ~result.continue_processing
    /\ result.violation.present
    /\ result.violation.reason = "Blocked pattern"

(***************************************************************************)
(* C13: a configuration with entropy_threshold < 0 or with an empty or     *)
(* unparseable entry in allowed_patterns or blocked_patterns makes the     *)
(* construction fail: there is no instance with such a configuration, and  *)
(* so no call that such a configuration answers.                           *)
(***************************************************************************)
C13_InvalidConfigFailsConstruction ==
    config_error(_cfg) => pc = "failed"

(***************************************************************************)
(* C14: a URL that no rule matches is allowed with no violation: an https  *)
(* URL whose host matches no whitelist_domains and no blocked_domains      *)
(* entry, that no blocked pattern matches (as a substring or as a regular  *)
(* expression) and, with use_heuristic_check, whose host neither exceeds   *)
(* entropy_threshold nor mixes scripts.  So https://example.com:8080/path  *)
(* and https://xn--fsq.com are allowed with use_heuristic_check and        *)
(* entropy_threshold 3.5.  Stated from the result: a call that returns     *)
(* anything but allow has a URL that some rule matches, and is not one of  *)
(* the two URLs under such a configuration.                                *)
(***************************************************************************)
ClaimNoRuleMatches ==
    /\ ClaimScheme = s_https
    /\ ~ClaimWhitelisted
    /\ ~ClaimBlockedDomain
    /\ ~ClaimBlockedPattern
    /\ _cfg.use_heuristic_check => (~ClaimHighEntropy /\ ~mixed_script(ClaimHost))

C14_UnmatchedUrlIsAllowed ==
    (pc = "returned" /\ result # Allow) =>
        /\ ~ClaimNoRuleMatches
        /\ ~(/\ uri \in {u_port, u_punycode}
             /\ _cfg.use_heuristic_check
             /\ _cfg.entropy_threshold = 350
             /\ _cfg.whitelist_domains = {}
             /\ _cfg.blocked_domains = {}
             /\ _cfg.blocked_patterns = <<>>)

\* the Python rules allowed the URL with a port, under the configuration
\* of test_url_with_port_allowed
C14_Witness ==
    /\ pc = "returned"
    /\ path = "python"
    /\ uri = u_port
    /\ ClaimNoRuleMatches
    /\ _cfg.use_heuristic_check
    /\ _cfg.entropy_threshold = 350
    /\ _cfg.block_non_secure_http
    /\ _cfg.whitelist_domains = {}
    /\ _cfg.allowed_patterns = <<>>
    /\ _cfg.blocked_domains = {}
    /\ _cfg.blocked_patterns = <<>>
    /\ result = Allow

(***************************************************************************)
(* C15: however the calls of concurrent requests on one instance           *)
(* interleave (with each other and with patches of the flag), each call    *)
(* returns what a call with its URL returns when it is the only one, on    *)
(* the branch it took: the Python rules' result, the backend's, or the     *)
(* except branch's allow, for the configuration captured at construction;  *)
(* and no step changes a field of that configuration.                      *)
(***************************************************************************)
\* the result of the only call on an instance with configuration cfg, for
\* URL u, on the given branch
ClaimAlone(cfg, u, branch) ==
    CASE branch = "python" -> python_rules(cfg, u)
      [] branch = "rust" -> validate_url_py(cfg, u)
      [] branch = "except" -> Allow

C15_ConcurrentCallsAreIndependent ==
    [][/\ _cfg' = _cfg
       /\ \A t \in Tasks :
             inflight'[t].pc = "returned" =>
                 inflight'[t].result =
                     ClaimAlone(_cfg, inflight'[t].uri, inflight'[t].path)]_vars

\* two requests have returned from interleaved calls with different URLs
\* and different results, the first on the Python rules although the flag
\* was patched while it ran
C15_Witness ==
    /\ inflight[1].pc = "returned"
    /\ inflight[2].pc = "returned"
    /\ inflight[1].uri # inflight[2].uri
    /\ inflight[1].path = "python"
    /\ inflight[2].path # "python"
    /\ _RUST_AVAILABLE
    /\ ~inflight[1].result.continue_processing
    /\ inflight[2].result = Allow

(***************************************************************************)
(* C16: when a URL that neither the whitelist nor an allowed pattern       *)
(* allows matches several block rules at once, or several entries of       *)
(* blocked_patterns, the violation is that of the earliest rule in the     *)
(* order scheme, blocked domain, blocked pattern, heuristic: "Blocked non  *)
(* secure http url" with the URL; else "Blocked domain" with the host;     *)
(* else "Blocked pattern" with the first entry, in list order, that        *)
(* matches.  Stated of the calls an evaluator answered.                    *)
(***************************************************************************)
ClaimHeuristicBlocked ==
    /\ _cfg.use_heuristic_check
    /\ ClaimHost # <<>>
    /\ (ClaimHighEntropy \/ mixed_script(ClaimHost))

\* the block rules that match the URL, and the blocked_patterns entries
ClaimRulesMatched ==
    {r \in {"scheme", "domain", "pattern", "heuristic"} :
        \/ r = "scheme" /\ ClaimSchemeBlocked
        \/ r = "domain" /\ ClaimBlockedDomain
        \/ r = "pattern" /\ ClaimBlockedPattern
        \/ r = "heuristic" /\ ClaimHeuristicBlocked}

ClaimPatternsMatched ==
    {i \in 1..Len(_cfg.blocked_patterns) : pattern_hits(_cfg.blocked_patterns[i], uri)}

ClaimFirstPattern ==
    _cfg.blocked_patterns[CHOOSE i \in ClaimPatternsMatched :
                              \A k \in ClaimPatternsMatched : i <= k]

C16_FirstMatchingRuleDecides ==
    (/\ Evaluated
     /\ ~ClaimWhitelisted
     /\ ~ClaimAllowedPattern
     /\ Cardinality(ClaimRulesMatched) >= 2 \/ Cardinality(ClaimPatternsMatched) >= 2)
        => IF ClaimSchemeBlocked
           THEN ClaimBlockedWith("Blocked non secure http url", <<"url", uri>>)
           ELSE IF ClaimBlockedDomain
           THEN ClaimBlockedWith("Blocked domain", <<"domain", ClaimHost>>)
           ELSE ClaimBlockedWith("Blocked pattern", <<"pattern", ClaimFirstPattern>>)

(***************************************************************************)
(* C17: every call uses the evaluator chosen when the instance was         *)
(* constructed, whatever _RUST_AVAILABLE is at the time of the call: an    *)
(* instance constructed without the backend (it has no rust_plugin)        *)
(* answers every call with the Python rules, and an instance constructed   *)
(* with the backend hands every call to it.                                *)
(***************************************************************************)
C17_EvaluatorChosenAtConstruction ==
    pc = "returned" =>
        /\ ~rust_plugin => (path = "python" /\ result = python_rules(_cfg, uri))
        /\ rust_plugin => (path \in {"rust", "except"} /\ backend_calls = 1)

(***************************************************************************)
(* C18: hosts and configured domains are compared in their decoded form:   *)
(* a URL whose host, decoded from punycode, equals or is a subdomain of a  *)
(* whitelist_domains entry, decoded likewise, is allowed; and one that is  *)
(* not whitelisted, passes the scheme rule and matches a blocked_domains   *)
(* entry in that way gets "Blocked domain".  So xn--fsq.com matches the    *)
(* entry written in Unicode and the Unicode host matches the entry         *)
(* "xn--fsq.com".  Stated of the calls an evaluator answered.              *)
(***************************************************************************)
ClaimDecodedListed(domains) ==
    /\ ClaimHost # <<>>
    /\ \E d \in domains : ClaimMatch(to_unicode(ClaimHost), to_unicode(lower(d)))

C18_DomainsComparedDecoded ==
    (Evaluated /\ _cfg.allowed_patterns = <<>>) =>
        /\ ClaimDecodedListed(_cfg.whitelist_domains) => result = Allow
        /\ (/\ ~ClaimDecodedListed(_cfg.whitelist_domains)
            /\ ~ClaimSchemeBlocked
            /\ ClaimDecodedListed(_cfg.blocked_domains))
               => (/\ result.outcome = "return"
                   /\ ~result.continue_processing
                   /\ result.violation.reason = "Blocked domain")

====
